---------------------------- MODULE Spec2Model ----------------------------
(***************************************************************************)
(* The chats route of the chatr web service (src/routes/chats.js): seven   *)
(* endpoints, each a chain of middleware steps.  Every step but the first  *)
(* issues one query to the store and decides in the query's callback       *)
(* whether to respond or to pass control to the next step.  Requests       *)
(* interleave between steps; a step (one query and its callback) is        *)
(* atomic, because a callback touches only its own request.                *)
(***************************************************************************)
EXTENDS Integers, Sequences, FiniteSets, Bags, TLC

(***************************************************************************)
(* Bounds of the model.                                                    *)
(***************************************************************************)
\* chat ids the Chats sequence hands out: 1..MaxChats
MaxChats == 2
\* request slots: the number of requests a session keeps the records of
NumSlots == 3

Slots == 1..NumSlots

(***************************************************************************)
(* Tables owned by the identity subsystem; this route only reads them.     *)
(***************************************************************************)
MemberRows ==
    { [memberid |-> 1, email |-> "ann@x", username |-> "ann"],
      [memberid |-> 2, email |-> "bob@x", username |-> "bob"] }

\* the memberid a decoded JWT may carry; 3 is no row of Members
CallerIds == {1, 2, 3}
Emails == {"ann@x", "bob@x", "zed@x"}

\* Push_Token tables (MemberId, Token): a member with two tokens and one
\* with none; a member with one token next to another member's token
PushTokenTables ==
    { {<<1, "t1">>, <<1, "t2">>},
      {<<1, "t1">>, <<2, "t3">>} }

ChatNames == {"Team"}

(***************************************************************************)
(* Route parameters are text.  A parameter is a sequence of characters.    *)
(***************************************************************************)
Digits == {"0", "1", "2", "3", "4", "5", "6", "7", "8", "9"}

DigitVal(ch) ==
    CASE ch = "0" -> 0 [] ch = "1" -> 1 [] ch = "2" -> 2 [] ch = "3" -> 3
      [] ch = "4" -> 4 [] ch = "5" -> 5 [] ch = "6" -> 6 [] ch = "7" -> 7
      [] ch = "8" -> 8 [] ch = "9" -> 9

AllDigits(s) == \A i \in 1..Len(s) : s[i] \in Digits

\* s without a leading sign
Unsigned(s) == IF s # <<>> /\ s[1] \in {"-", "+"} THEN Tail(s) ELSE s

\* Number(s) is not NaN: [sign] digits [. [digits]]  or  [sign] . digits
\* (the characters used here are the digits, the signs, the point and
\* letters; the empty text converts to 0)
IsNumericText(s) ==
    \/ s = <<>>
    \/ LET u == Unsigned(s)
           dots == {i \in 1..Len(u) : u[i] = "."}
       IN  /\ u # <<>>
           /\ \A i \in 1..Len(u) : u[i] \in Digits \cup {"."}
           /\ Cardinality(dots) <= 1
           /\ \E i \in 1..Len(u) : u[i] \in Digits

\* the global isNaN applied to a route parameter
isNaN(s) == ~IsNumericText(s)

\* text the store accepts for an integer column: [sign] digits
IsIntegerText(s) == Unsigned(s) # <<>> /\ AllDigits(Unsigned(s))

RECURSIVE NatOf(_)
NatOf(u) == IF u = <<>> THEN 0
            ELSE 10 * NatOf(SubSeq(u, 1, Len(u) - 1)) + DigitVal(u[Len(u)])

\* the integer an integer column parameter denotes
IntOf(s) == IF s[1] = "-" THEN 0 - NatOf(Unsigned(s)) ELSE NatOf(Unsigned(s))

\* validation.isStringProvided
isStringProvided(s) == s # ""

(***************************************************************************)
(* The store: four tables and the sequence behind Chats.ChatId.           *)
(***************************************************************************)
VARIABLES
    Chats,        \* Chats(ChatId, Name): a function from the ChatIds to their Name
    chatIdSeq,    \* the last ChatId the sequence behind Chats.ChatId handed out
    ChatMembers,  \* ChatMembers(ChatId, MemberId): a bag of <<ChatId, MemberId>>
    Members,      \* Members(MemberId, Email, Username): a set of rows
    Push_Token,   \* Push_Token(MemberId, Token): a set of <<MemberId, Token>>
    req,          \* per slot, the request it holds and the step it is at
    pre           \* per slot, the tables as they were when its request arrived
                  \* (a history variable, kept by the one-at-a-time sessions)

store == <<Chats, chatIdSeq, ChatMembers, Members, Push_Token>>
vars == <<Chats, chatIdSeq, ChatMembers, Members, Push_Token, req, pre>>

\* the bag a count per element denotes: the elements counted 0 are no rows
BagOf(count) == [e \in {x \in DOMAIN count : count[x] > 0} |-> count[e]]

\* SELECT * FROM CHATS WHERE ChatId=$1
SelectChat(chats, c) == IF c \in DOMAIN chats THEN {<<c, chats[c]>>} ELSE {}

\* SELECT * FROM Members WHERE MemberId=$1
SelectMemberById(members, m) == {row \in members : row.memberid = m}

\* SELECT * FROM Members WHERE Email=$1
SelectMemberByEmail(members, e) == {row \in members : row.email = e}

\* SELECT * FROM ChatMembers WHERE ChatId=$1 AND MemberId=$2  (rowCount)
CountMembership(cm, c, m) == CopiesIn(<<c, m>>, cm)

\* SELECT COUNT(*) AS memberCount FROM ChatMembers WHERE ChatId=$1
CountMembers(cm, c) ==
    BagCardinality(BagOf([x \in BagToSet(cm) |-> IF x[1] = c THEN cm[x] ELSE 0]))

\* INSERT INTO ChatMembers(ChatId, MemberId) VALUES ($1, $2): the table
\* has no key, so a second copy of a row is one more row
InsertChatMember(cm, c, m) == cm (+) SetToBag({<<c, m>>})

\* faulty variant of DeleteChatMember: the WHERE clause without the MemberId,
\* which removes every member of the chat (C5 must reject it)
DeleteChatMember_WholeChat(cm, c, m) ==
    BagOf([x \in BagToSet(cm) |-> IF x[1] = c THEN 0 ELSE cm[x]])

\* DELETE FROM ChatMembers WHERE ChatId=$1 AND MemberId=$2
DeleteChatMember(cm, c, m) ==
    BagOf([x \in BagToSet(cm) |-> IF x = <<c, m>> THEN 0 ELSE cm[x]])

\* DELETE FROM Chats WHERE ChatID=$1
DeleteChatRow(chats, c) == [x \in DOMAIN chats \ {c} |-> chats[x]]

\* SELECT Chats.ChatID, Chats.Name FROM Chats JOIN ChatMembers ... WHERE MemberID=$1
SelectChatsOf(chats, cm, m) ==
    BagOf([x \in {<<c, chats[c]>> : c \in DOMAIN chats} |->
              CopiesIn(<<x[1], m>>, cm)])

\* SELECT Email, Username FROM ChatMembers INNER JOIN Members ... WHERE ChatId=$1
SelectMembersOf(members, cm, c) ==
    BagOf([x \in {<<row.email, row.username>> : row \in members} |->
              BagCardinality(BagOf(
                  [row \in {w \in members : <<w.email, w.username>> = x} |->
                      CopiesIn(<<c, row.memberid>>, cm)]))])

\* faulty variant of SelectTokens: the query without its WHERE clause, which
\* returns the tokens of every member (C9 must reject it)
SelectTokens_OfEveryone(tokens, m) == {row[2] : row \in tokens}

\* SELECT token FROM Push_Token WHERE memberid=$1
SelectTokens(tokens, m) == {row[2] : row \in {w \in tokens : w[1] = m}}

(***************************************************************************)
(* Requests.  A request record holds what the request object carries down  *)
(* its chain (params, decoded, body, the fields steps attach), the step    *)
(* the chain is at, the response once sent, and what the request did: the  *)
(* queries it issued and the notifications it dispatched.                  *)
(***************************************************************************)
NoResponse == [status |-> 0, message |-> "", chatID |-> 0, rows |-> EmptyBag]

Idle ==
    [kind |-> "none", pc |-> "idle", chatId |-> <<>>, email |-> "",
     decoded |-> 0, body |-> "", name |-> "", memberid |-> 0,
     resp |-> NoResponse, queries |-> 0, sent |-> EmptyBag]

\* a request as it arrives: params.chatId, params.email, decoded.memberid,
\* body.name
Arrived(kind, chatId, email, decoded, body) ==
    [Idle EXCEPT !.kind = kind, !.pc = "arrived", !.chatId = chatId,
                 !.email = email, !.decoded = decoded, !.body = body]

\* faulty variant of Send: the response is sent and the chain goes on from the
\* step it is at (C12 must reject it)
Send_WithoutEnding(q, status, message) ==
    [q EXCEPT !.resp = [NoResponse EXCEPT !.status = status, !.message = message]]

\* response.status(status).send({message: ...}) ends the chain
Send(q, status, message) ==
    [q EXCEPT !.pc = "done",
              !.resp = [NoResponse EXCEPT !.status = status, !.message = message]]

\* response.send({rowCount, rows})
SendRows(q, rows) ==
    [q EXCEPT !.pc = "done",
              !.resp = [NoResponse EXCEPT !.status = 200, !.message = "success",
                                          !.rows = rows]]

\* next() passes control to the step named pc
Pass(q, pc) == [q EXCEPT !.pc = pc]

\* pool.query(...) issued by the request
Queried(q) == [q EXCEPT !.queries = @ + 1]

\* faulty variant of CheckParams: the isNaN check left out, which passes any
\* text on to the store (C8 must reject it)
CheckParams_NoNumberCheck(q, missing, first) ==
    IF missing THEN Send(q, 400, "Missing required information")
    ELSE Pass(q, first)

\* the request's first step: the check of its parameters, which sends
\* "Missing required information", "Malformed parameter..." or calls next()
CheckParams(q, missing, first) ==
    IF missing THEN Send(q, 400, "Missing required information")
    ELSE IF isNaN(q.chatId)
         THEN Send(q, 400, "Malformed parameter. chatId must be a number")
         ELSE Pass(q, first)

\* a slot takes a new request when it holds none in flight
Free(r) == req[r].pc \in {"idle", "done"}

InFlight(r) == ~Free(r)

Receive(r, q) ==
    /\ Free(r)
    /\ req' = [req EXCEPT ![r] = q]
    /\ UNCHANGED store

\* a step of the request in slot r that leaves the tables alone
Step(r, q) ==
    /\ req' = [req EXCEPT ![r] = q]
    /\ UNCHANGED <<store, pre>>

\* the .catch of a query: the store rejected it
Rejected(r, message) == Step(r, Send(Queried(req[r]), 400, message))

At(r, kind, pc) == req[r].kind = kind /\ req[r].pc = pc

\* the ChatId a request's chatId parameter denotes once the store has
\* accepted it for the integer column
ChatIdOf(q) == IntOf(q.chatId)

\* the store takes the chatId parameter for an integer column
Accepts(q) == IsIntegerText(q.chatId)

(***************************************************************************)
(* POST /chats: create a chat.                                             *)
(***************************************************************************)
PostChats(r, names, callers) ==
    \E d \in callers, n \in names :
        LET q == Arrived("PostChats", <<>>, "", d, n)
        IN  Receive(r, IF ~isStringProvided(q.body)
                       THEN Send(q, 400, "Missing required information")
                       ELSE Pass(q, "insertChat"))

\* faulty variant of PostChats_Insert: the ChatId returned is the last one
\* handed out, not a new one (C10 must reject it)
PostChats_Insert_ReusesId(r) ==
    /\ At(r, "PostChats", "insertChat")
    /\ \/ /\ chatIdSeq < MaxChats
          /\ LET q == Queried(req[r])
                 id == chatIdSeq
             IN  /\ chatIdSeq' = id
                 /\ Chats' = Chats @@ (id :> q.body)
                 /\ req' = [req EXCEPT ![r] =
                        [q EXCEPT !.pc = "done",
                                  !.resp = [NoResponse EXCEPT !.status = 201,
                                                !.message = "success",
                                                !.chatID = id]]]
                 /\ UNCHANGED <<ChatMembers, Members, Push_Token, pre>>
       \/ Rejected(r, "SQL Error")

PostChats_Insert(r) ==
    /\ At(r, "PostChats", "insertChat")
    /\ \/ /\ chatIdSeq < MaxChats
          /\ LET q == Queried(req[r])
                 id == chatIdSeq + 1
             IN  /\ chatIdSeq' = id
                 /\ Chats' = Chats @@ (id :> q.body)
                 /\ req' = [req EXCEPT ![r] =
                        [q EXCEPT !.pc = "done",
                                  !.resp = [NoResponse EXCEPT !.status = 201,
                                                !.message = "success",
                                                !.chatID = id]]]
                 /\ UNCHANGED <<ChatMembers, Members, Push_Token, pre>>
       \/ Rejected(r, "SQL Error")

(***************************************************************************)
(* GET /chats: the chats of the caller.                                    *)
(***************************************************************************)
GetAllChats(r, callers) ==
    \E d \in callers :
        Receive(r, Pass(Arrived("GetAllChats", <<>>, "", d, ""), "selectChats"))

GetAllChats_Select(r) ==
    /\ At(r, "GetAllChats", "selectChats")
    /\ \/ LET q == Queried(req[r])
          IN  Step(r, SendRows(q, SelectChatsOf(Chats, ChatMembers, q.decoded)))
       \/ Rejected(r, "SQL Error")

(***************************************************************************)
(* DELETE /chats/:chatId? : the caller leaves the chat, and the chat is    *)
(* deleted when no member remains.                                         *)
(***************************************************************************)
DeleteChat(r, chatIds, callers) ==
    \E c \in chatIds, d \in callers :
        LET q == Arrived("DeleteChat", c, "", d, "")
        IN  Receive(r, CheckParams(q, q.chatId = <<>>, "chatExists"))

DeleteChat_ChatExists(r) ==
    /\ At(r, "DeleteChat", "chatExists")
    /\ \/ /\ Accepts(req[r])
          /\ LET q == Queried(req[r])
             IN  Step(r, IF Cardinality(SelectChat(Chats, ChatIdOf(q))) = 0
                         THEN Send(q, 404, "Chat ID not found")
                         ELSE Pass(q, "deleteMember"))
       \/ Rejected(r, "SQL Error")

\* faulty variant of DeleteChat_DeleteMember: a delete that removes no row is
\* answered as an error (C17 must reject it)
DeleteChat_DeleteMember_RequiresRow(r) ==
    /\ At(r, "DeleteChat", "deleteMember")
    /\ \/ LET q == Queried(req[r])
          IN  IF CountMembership(ChatMembers, ChatIdOf(q), q.decoded) = 0
              THEN Step(r, Send(q, 400, "user not in chat"))
              ELSE /\ ChatMembers' =
                          DeleteChatMember(ChatMembers, ChatIdOf(q), q.decoded)
                   /\ req' = [req EXCEPT ![r] = Pass(q, "countMembers")]
                   /\ UNCHANGED <<Chats, chatIdSeq, Members, Push_Token, pre>>
       \/ Rejected(r, "SQL Error")

DeleteChat_DeleteMember(r) ==
    /\ At(r, "DeleteChat", "deleteMember")
    /\ \/ LET q == Queried(req[r])
          IN  /\ ChatMembers' = DeleteChatMember(ChatMembers, ChatIdOf(q), q.decoded)
              /\ req' = [req EXCEPT ![r] = Pass(q, "countMembers")]
              /\ UNCHANGED <<Chats, chatIdSeq, Members, Push_Token, pre>>
       \/ Rejected(r, "SQL Error")

\* faulty variant of DeleteChat_CountMembers: the else branch without its
\* next(), which neither responds nor passes control (C21 must reject it)
DeleteChat_CountMembers_NoNext(r) ==
    /\ At(r, "DeleteChat", "countMembers")
    /\ \/ LET q == Queried(req[r])
              memberCount == CountMembers(ChatMembers, ChatIdOf(q))
          IN  Step(r, IF memberCount > 0
                      THEN Send(q, 200, "success")
                      ELSE Pass(q, "hung"))
       \/ Rejected(r, "SQL Error")

\* faulty variant of DeleteChat_CountMembers: memberCount >= 0 for
\* memberCount > 0, which never reaches the delete of the chat (C4 must
\* reject it)
DeleteChat_CountMembers_NeverDeletes(r) ==
    /\ At(r, "DeleteChat", "countMembers")
    /\ \/ LET q == Queried(req[r])
              memberCount == CountMembers(ChatMembers, ChatIdOf(q))
          IN  Step(r, IF memberCount >= 0
                      THEN Send(q, 200, "success")
                      ELSE Pass(q, "deleteChat"))
       \/ Rejected(r, "SQL Error")

DeleteChat_CountMembers(r) ==
    /\ At(r, "DeleteChat", "countMembers")
    /\ \/ LET q == Queried(req[r])
              memberCount == CountMembers(ChatMembers, ChatIdOf(q))
          IN  Step(r, IF memberCount > 0
                      THEN Send(q, 200, "success")
                      ELSE Pass(q, "deleteChat"))
       \/ Rejected(r, "SQL Error")

\* faulty variant of DeleteChat_DeleteChat: a delete that finds the chat
\* already gone is answered 404 (C20 must reject it)
DeleteChat_DeleteChat_RequiresRow(r) ==
    /\ At(r, "DeleteChat", "deleteChat")
    /\ \/ LET q == Queried(req[r])
          IN  /\ Chats' = DeleteChatRow(Chats, ChatIdOf(q))
              /\ req' = [req EXCEPT ![r] =
                            IF Cardinality(SelectChat(Chats, ChatIdOf(q))) = 0
                            THEN Send(q, 404, "Chat ID not found")
                            ELSE Send(q, 200, "success")]
              /\ UNCHANGED <<chatIdSeq, ChatMembers, Members, Push_Token, pre>>
       \/ Rejected(r, "SQL Error")

\* faulty variant of DeleteChat_DeleteChat: when the delete of the chat is
\* rejected, the caller's membership row is put back (C18 must reject it)
DeleteChat_DeleteChat_RollsBack(r) ==
    /\ At(r, "DeleteChat", "deleteChat")
    /\ \/ LET q == Queried(req[r])
          IN  /\ Chats' = DeleteChatRow(Chats, ChatIdOf(q))
              /\ req' = [req EXCEPT ![r] = Send(q, 200, "success")]
              /\ UNCHANGED <<chatIdSeq, ChatMembers, Members, Push_Token, pre>>
       \/ LET q == Queried(req[r])
          IN  /\ ChatMembers' = ChatMembers (+) SetToBag({<<ChatIdOf(q), q.decoded>>})
              /\ req' = [req EXCEPT ![r] = Send(q, 400, "SQL Error")]
              /\ UNCHANGED <<Chats, chatIdSeq, Members, Push_Token, pre>>

DeleteChat_DeleteChat(r) ==
    /\ At(r, "DeleteChat", "deleteChat")
    /\ \/ LET q == Queried(req[r])
          IN  /\ Chats' = DeleteChatRow(Chats, ChatIdOf(q))
              /\ req' = [req EXCEPT ![r] = Send(q, 200, "success")]
              /\ UNCHANGED <<chatIdSeq, ChatMembers, Members, Push_Token, pre>>
       \/ Rejected(r, "SQL Error")

(***************************************************************************)
(* PUT /chats/:chatId/ : the caller joins the chat.                        *)
(***************************************************************************)
PutChats(r, chatIds, callers) ==
    \E c \in chatIds, d \in callers :
        LET q == Arrived("PutChats", c, "", d, "")
        IN  Receive(r, CheckParams(q, q.chatId = <<>>, "chatExists"))

PutChats_ChatExists(r) ==
    /\ At(r, "PutChats", "chatExists")
    /\ \/ /\ Accepts(req[r])
          /\ LET q == Queried(req[r])
             IN  Step(r, IF Cardinality(SelectChat(Chats, ChatIdOf(q))) = 0
                         THEN Send(q, 404, "Chat ID not found")
                         ELSE Pass(q, "memberExists"))
       \/ Rejected(r, "SQL Error")

PutChats_MemberExists(r) ==
    /\ At(r, "PutChats", "memberExists")
    /\ \/ LET q == Queried(req[r])
          IN  Step(r, IF Cardinality(SelectMemberById(Members, q.decoded)) = 0
                      THEN Send(q, 404, "email not found")
                      ELSE Pass(q, "notJoined"))
       \/ Rejected(r, "SQL Error")

\* faulty variant of PutChats_NotJoined: the result of the membership query is
\* not looked at (C16 must reject it)
PutChats_NotJoined_Unchecked(r) ==
    /\ At(r, "PutChats", "notJoined")
    /\ \/ Step(r, Pass(Queried(req[r]), "insertMember"))
       \/ Rejected(r, "SQL Error")

PutChats_NotJoined(r) ==
    /\ At(r, "PutChats", "notJoined")
    /\ \/ LET q == Queried(req[r])
          IN  Step(r, IF CountMembership(ChatMembers, ChatIdOf(q), q.decoded) > 0
                      THEN Send(q, 400, "user already joined")
                      ELSE Pass(q, "insertMember"))
       \/ Rejected(r, "SQL Error")

\* faulty variant of PutChats_Insert: the self-add notifies the caller's
\* devices the way the add by email does (C14 must reject it)
PutChats_Insert_Notifies(r) ==
    /\ At(r, "PutChats", "insertMember")
    /\ \/ LET q == Queried(req[r])
              tokens == SelectTokens(Push_Token, q.decoded)
          IN  /\ ChatMembers' = InsertChatMember(ChatMembers, ChatIdOf(q), q.decoded)
              /\ req' = [req EXCEPT ![r] =
                            Send([q EXCEPT !.sent = @ (+) SetToBag(
                                      {<<t, "newRoom", q.chatId, q.name>> :
                                          t \in tokens})],
                                 200, "success")]
              /\ UNCHANGED <<Chats, chatIdSeq, Members, Push_Token, pre>>
       \/ Rejected(r, "SQL Error")

PutChats_Insert(r) ==
    /\ At(r, "PutChats", "insertMember")
    /\ \/ LET q == Queried(req[r])
          IN  /\ ChatMembers' = InsertChatMember(ChatMembers, ChatIdOf(q), q.decoded)
              /\ req' = [req EXCEPT ![r] = Send(q, 200, "success")]
              /\ UNCHANGED <<Chats, chatIdSeq, Members, Push_Token, pre>>
       \/ Rejected(r, "SQL Error")

(***************************************************************************)
(* PUT /chats/:chatId/:email : add the member with that email, and notify  *)
(* the member's devices.                                                   *)
(***************************************************************************)
PutChatsEmail(r, chatIds, emails, callers) ==
    \E c \in chatIds, e \in emails, d \in callers :
        LET q == Arrived("PutChatsEmail", c, e, d, "")
        IN  Receive(r, CheckParams(q, q.chatId = <<>> \/ q.email = "", "chatExists"))

PutChatsEmail_ChatExists(r) ==
    /\ At(r, "PutChatsEmail", "chatExists")
    /\ \/ /\ Accepts(req[r])
          /\ LET q == Queried(req[r])
                 rows == SelectChat(Chats, ChatIdOf(q))
             IN  Step(r, IF Cardinality(rows) = 0
                         THEN Send(q, 404, "Chat ID not found")
                         ELSE Pass([q EXCEPT !.name = (CHOOSE row \in rows : TRUE)[2]],
                                   "emailExists"))
       \/ Rejected(r, "SQL Error")

PutChatsEmail_EmailExists(r) ==
    /\ At(r, "PutChatsEmail", "emailExists")
    /\ \/ LET q == Queried(req[r])
              rows == SelectMemberByEmail(Members, q.email)
          IN  Step(r, IF Cardinality(rows) = 0
                      THEN Send(q, 404, "User not found")
                      ELSE Pass([q EXCEPT !.memberid =
                                     (CHOOSE row \in rows : TRUE).memberid],
                                "notJoined"))
       \/ Rejected(r, "SQL Error")

\* faulty variant of PutChatsEmail_NotJoined: rowCount > 1 for rowCount > 0,
\* which lets a second add of the pair through (C6 must reject it)
PutChatsEmail_NotJoined_OffByOne(r) ==
    /\ At(r, "PutChatsEmail", "notJoined")
    /\ \/ LET q == Queried(req[r])
          IN  Step(r, IF CountMembership(ChatMembers, ChatIdOf(q), q.memberid) > 1
                      THEN Send(q, 400, "user already joined")
                      ELSE Pass(q, "insertMember"))
       \/ Rejected(r, "SQL Error")

\* faulty variant of PutChatsEmail_NotJoined: the membership looked up is the
\* caller's (request.decoded.memberid, as in the self-add chain), not that of
\* the member the email names (C24 must reject it)
PutChatsEmail_NotJoined_ChecksCaller(r) ==
    /\ At(r, "PutChatsEmail", "notJoined")
    /\ \/ LET q == Queried(req[r])
          IN  Step(r, IF CountMembership(ChatMembers, ChatIdOf(q), q.decoded) > 0
                      THEN Send(q, 400, "user already joined")
                      ELSE Pass(q, "insertMember"))
       \/ Rejected(r, "SQL Error")

PutChatsEmail_NotJoined(r) ==
    /\ At(r, "PutChatsEmail", "notJoined")
    /\ \/ LET q == Queried(req[r])
          IN  Step(r, IF CountMembership(ChatMembers, ChatIdOf(q), q.memberid) > 0
                      THEN Send(q, 400, "user already joined")
                      ELSE Pass(q, "insertMember"))
       \/ Rejected(r, "SQL Error")

\* faulty variant of PutChatsEmail_Insert: a rejected insert goes on to the
\* notification step (C22 must reject it)
PutChatsEmail_Insert_NotifiesAnyway(r) ==
    /\ At(r, "PutChatsEmail", "insertMember")
    /\ \/ LET q == Queried(req[r])
          IN  /\ ChatMembers' = InsertChatMember(ChatMembers, ChatIdOf(q), q.memberid)
              /\ req' = [req EXCEPT ![r] = Pass(q, "notify")]
              /\ UNCHANGED <<Chats, chatIdSeq, Members, Push_Token, pre>>
       \/ Step(r, Pass(Queried(req[r]), "notify"))

PutChatsEmail_Insert(r) ==
    /\ At(r, "PutChatsEmail", "insertMember")
    /\ \/ LET q == Queried(req[r])
          IN  /\ ChatMembers' = InsertChatMember(ChatMembers, ChatIdOf(q), q.memberid)
              /\ req' = [req EXCEPT ![r] = Pass(q, "notify")]
              /\ UNCHANGED <<Chats, chatIdSeq, Members, Push_Token, pre>>
       \/ Rejected(r, "SQL Error")

\* pushy.sendChatAction(token, "newRoom", chatId, name) for each token row
Dispatches(q, tokens) ==
    SetToBag({<<t, "newRoom", q.chatId, q.name>> : t \in tokens})

PutChatsEmail_Notify(r) ==
    /\ At(r, "PutChatsEmail", "notify")
    /\ \/ LET q == Queried(req[r])
              tokens == SelectTokens(Push_Token, q.memberid)
          IN  Step(r, Send([q EXCEPT !.sent = @ (+) Dispatches(q, tokens)],
                           200, "success"))
       \/ Rejected(r, "SQL Error on select from push token")

(***************************************************************************)
(* GET /chats/:chatId : the members of the chat.                           *)
(***************************************************************************)
GetChats(r, chatIds, callers) ==
    \E c \in chatIds, d \in callers :
        LET q == Arrived("GetChats", c, "", d, "")
        IN  Receive(r, CheckParams(q, q.chatId = <<>>, "chatExists"))

GetChats_ChatExists(r) ==
    /\ At(r, "GetChats", "chatExists")
    /\ \/ /\ Accepts(req[r])
          /\ LET q == Queried(req[r])
             IN  Step(r, IF Cardinality(SelectChat(Chats, ChatIdOf(q))) = 0
                         THEN Send(q, 404, "Chat ID not found")
                         ELSE Pass(q, "selectMembers"))
       \/ Rejected(r, "SQL Error")

\* faulty variant of GetChats_Select: listing a chat without members removes
\* the chat (C19 must reject it)
GetChats_Select_Prunes(r) ==
    /\ At(r, "GetChats", "selectMembers")
    /\ \/ LET q == Queried(req[r])
              rows == SelectMembersOf(Members, ChatMembers, ChatIdOf(q))
          IN  /\ Chats' = IF rows = EmptyBag THEN DeleteChatRow(Chats, ChatIdOf(q))
                          ELSE Chats
              /\ req' = [req EXCEPT ![r] = SendRows(q, rows)]
              /\ UNCHANGED <<chatIdSeq, ChatMembers, Members, Push_Token, pre>>
       \/ Rejected(r, "SQL Error")

GetChats_Select(r) ==
    /\ At(r, "GetChats", "selectMembers")
    /\ \/ LET q == Queried(req[r])
          IN  Step(r, SendRows(q, SelectMembersOf(Members, ChatMembers, ChatIdOf(q))))
       \/ Rejected(r, "SQL Error")

(***************************************************************************)
(* DELETE /chats/:chatId/:email : remove the member with that email.  The  *)
(* chain stores the memberid it resolves in params.email; the model keeps  *)
(* it in the memberid field.                                               *)
(***************************************************************************)
DeleteChats(r, chatIds, emails, callers) ==
    \E c \in chatIds, e \in emails, d \in callers :
        LET q == Arrived("DeleteChats", c, e, d, "")
        IN  Receive(r, CheckParams(q, q.chatId = <<>> \/ q.email = "", "chatExists"))

\* faulty variant of DeleteChats_ChatExists: the chat is not looked up before
\* the email is resolved (C15 must reject it)
DeleteChats_ChatExists_Skipped(r) ==
    /\ At(r, "DeleteChats", "chatExists")
    /\ \/ /\ Accepts(req[r])
          /\ Step(r, Pass(Queried(req[r]), "emailExists"))
       \/ Rejected(r, "SQL Error")

DeleteChats_ChatExists(r) ==
    /\ At(r, "DeleteChats", "chatExists")
    /\ \/ /\ Accepts(req[r])
          /\ LET q == Queried(req[r])
             IN  Step(r, IF Cardinality(SelectChat(Chats, ChatIdOf(q))) = 0
                         THEN Send(q, 404, "Chat ID not found")
                         ELSE Pass(q, "emailExists"))
       \/ Rejected(r, "SQL Error")

DeleteChats_EmailExists(r) ==
    /\ At(r, "DeleteChats", "emailExists")
    /\ \/ LET q == Queried(req[r])
              rows == SelectMemberByEmail(Members, q.email)
          IN  Step(r, IF Cardinality(rows) = 0
                      THEN Send(q, 404, "email not found")
                      ELSE Pass([q EXCEPT !.memberid =
                                     (CHOOSE row \in rows : TRUE).memberid],
                                "inChat"))
       \/ Rejected(r, "SQL Error")

\* faulty variant of DeleteChats_InChat: rowCount >= 0 for rowCount > 0,
\* which goes on to the delete for a member who is not in the chat (C7 must
\* reject it)
DeleteChats_InChat_AlwaysPasses(r) ==
    /\ At(r, "DeleteChats", "inChat")
    /\ \/ LET q == Queried(req[r])
          IN  Step(r, IF CountMembership(ChatMembers, ChatIdOf(q), q.memberid) >= 0
                      THEN Pass(q, "deleteMember")
                      ELSE Send(q, 400, "user not in chat"))
       \/ Rejected(r, "SQL Error")

DeleteChats_InChat(r) ==
    /\ At(r, "DeleteChats", "inChat")
    /\ \/ LET q == Queried(req[r])
          IN  Step(r, IF CountMembership(ChatMembers, ChatIdOf(q), q.memberid) > 0
                      THEN Pass(q, "deleteMember")
                      ELSE Send(q, 400, "user not in chat"))
       \/ Rejected(r, "SQL Error")

\* faulty variant of DeleteChats_Delete: the chat is deleted with its last
\* member, as the caller's own leave does (C23 must reject it)
DeleteChats_Delete_DropsEmptyChat(r) ==
    /\ At(r, "DeleteChats", "deleteMember")
    /\ \/ LET q == Queried(req[r])
              left == DeleteChatMember(ChatMembers, ChatIdOf(q), q.memberid)
          IN  /\ ChatMembers' = left
              /\ Chats' = IF CountMembers(left, ChatIdOf(q)) = 0
                          THEN DeleteChatRow(Chats, ChatIdOf(q))
                          ELSE Chats
              /\ req' = [req EXCEPT ![r] = Send(q, 200, "success")]
              /\ UNCHANGED <<chatIdSeq, Members, Push_Token, pre>>
       \/ Rejected(r, "SQL Error")

DeleteChats_Delete(r) ==
    /\ At(r, "DeleteChats", "deleteMember")
    /\ \/ LET q == Queried(req[r])
          IN  /\ ChatMembers' = DeleteChatMember(ChatMembers, ChatIdOf(q), q.memberid)
              /\ req' = [req EXCEPT ![r] = Send(q, 200, "success")]
              /\ UNCHANGED <<Chats, chatIdSeq, Members, Push_Token, pre>>
       \/ Rejected(r, "SQL Error")

(***************************************************************************)
(* Initial states: the tables as some sequence of requests can have left   *)
(* them.  ChatIds 1..chatIdSeq have been handed out; each of them is a     *)
(* chat that was deleted since, or a chat with any set of the members.     *)
(***************************************************************************)
MemberIds == {row.memberid : row \in MemberRows}

InitStore(tokenTables, issued) ==
    /\ chatIdSeq \in 0..issued
    /\ \E ids \in SUBSET (1..chatIdSeq) :
          /\ Chats \in [ids -> ChatNames]
          /\ \E rows \in SUBSET (ids \X MemberIds) : ChatMembers = SetToBag(rows)
    /\ Members = MemberRows
    /\ Push_Token \in tokenTables

NoTables == [Chats |-> <<>>, ChatMembers |-> EmptyBag]

InitRequests ==
    /\ req = [r \in Slots |-> Idle]
    /\ pre = [r \in Slots |-> NoTables]

\* the session notes the tables as the request of slot r arrives
Noted(r) == pre' = [pre EXCEPT ![r] = [Chats |-> Chats, ChatMembers |-> ChatMembers]]

Init == InitStore({{<<1, "t1">>, <<1, "t2">>}}, MaxChats - 1) /\ InitRequests

(***************************************************************************)
(* What clients send.                                                      *)
(***************************************************************************)
DigitText(d) ==
    CASE d = 0 -> "0" [] d = 1 -> "1" [] d = 2 -> "2" [] d = 3 -> "3"
      [] d = 4 -> "4" [] d = 5 -> "5" [] d = 6 -> "6" [] d = 7 -> "7"
      [] d = 8 -> "8" [] d = 9 -> "9"

RECURSIVE TextOf(_)
\* the decimal text of a natural number
TextOf(n) == IF n < 10 THEN <<DigitText(n)>>
             ELSE Append(TextOf(n \div 10), DigitText(n % 10))

\* the ChatIds the sequence can hand out, as route parameters
ChatIdTexts == {TextOf(c) : c \in 1..MaxChats}

\* the slots of the requests that run concurrently
ConcSlots == {1, 2}

Starts(r, chatIds, emails, callers, names) ==
    \/ PostChats(r, names, callers)
    \/ GetAllChats(r, callers)
    \/ DeleteChat(r, chatIds, callers)
    \/ PutChats(r, chatIds, callers)
    \/ PutChatsEmail(r, chatIds, emails, callers)
    \/ GetChats(r, chatIds, callers)
    \/ DeleteChats(r, chatIds, emails, callers)

Steps(r) ==
    \/ PostChats_Insert(r)
    \/ GetAllChats_Select(r)
    \/ DeleteChat_ChatExists(r)
    \/ DeleteChat_DeleteMember(r)
    \/ DeleteChat_CountMembers(r)
    \/ DeleteChat_DeleteChat(r)
    \/ PutChats_ChatExists(r)
    \/ PutChats_MemberExists(r)
    \/ PutChats_NotJoined(r)
    \/ PutChats_Insert(r)
    \/ PutChatsEmail_ChatExists(r)
    \/ PutChatsEmail_EmailExists(r)
    \/ PutChatsEmail_NotJoined(r)
    \/ PutChatsEmail_Insert(r)
    \/ PutChatsEmail_Notify(r)
    \/ GetChats_ChatExists(r)
    \/ GetChats_Select(r)
    \/ DeleteChats_ChatExists(r)
    \/ DeleteChats_EmailExists(r)
    \/ DeleteChats_InChat(r)
    \/ DeleteChats_Delete(r)

(***************************************************************************)
(* Spec: two requests at a time on the first chat, interleaving freely     *)
(* between their steps; a slot takes its next request once it has          *)
(* responded.  Initially the first chat does not exist yet, or was         *)
(* deleted, or exists with any set of the members.                         *)
(***************************************************************************)
InitConc == InitStore({{<<1, "t1">>, <<1, "t2">>}}, 1) /\ InitRequests

Next ==
    \E r \in ConcSlots :
        \/ /\ \/ PostChats(r, ChatNames, {1})
              \/ GetAllChats(r, {1, 2})
              \/ DeleteChat(r, {TextOf(1)}, {1, 2})
              \/ PutChats(r, {TextOf(1)}, {1, 2})
              \/ PutChatsEmail(r, {TextOf(1)}, {"ann@x", "zed@x"}, {1})
              \/ GetChats(r, {TextOf(1)}, {1})
              \/ DeleteChats(r, {TextOf(1)}, {"ann@x", "zed@x"}, {1})
           /\ UNCHANGED pre
        \/ Steps(r)

Spec == InitConc /\ [][Next]_vars

(***************************************************************************)
(* SpecSeq: one request at a time, each from the state the one before left *)
(* behind.                                                                 *)
(***************************************************************************)
InitSeq == InitStore(PushTokenTables, MaxChats - 1) /\ InitRequests

NextSeq ==
    \/ /\ \/ PostChats(1, ChatNames \cup {""}, {1})
          \/ GetAllChats(1, CallerIds)
          \/ DeleteChat(1, ChatIdTexts \cup {<<>>}, CallerIds)
          \/ PutChats(1, ChatIdTexts, CallerIds)
          \/ PutChatsEmail(1, ChatIdTexts, Emails, {1})
          \/ GetChats(1, ChatIdTexts, {1})
          \/ DeleteChats(1, ChatIdTexts, Emails, {1})
       /\ Noted(1)
    \/ Steps(1)

SpecSeq == InitSeq /\ [][NextSeq]_vars

(***************************************************************************)
(* SpecParams: one request to a chat-scoped endpoint, with every kind of   *)
(* chatId parameter a client can send.                                     *)
(***************************************************************************)
\* chatId parameters: ChatIds, and texts that are no positive integer
ChatIdParams ==
    ChatIdTexts \cup
    { <<"0">>, <<"-", "1">>, <<"1", ".", "5">>, <<"+", "1">>, <<".", "5">>,
      <<"a", "b", "c">>, <<"1", "a">>, <<"-">>, <<".">>,
      <<"1", ".", "2", ".", "3">> }

NextParams ==
    \/ /\ req[1].pc = "idle"
       /\ \/ DeleteChat(1, ChatIdParams \cup {<<>>}, CallerIds)
          \/ PutChats(1, ChatIdParams, CallerIds)
          \/ PutChatsEmail(1, ChatIdParams, Emails, {1})
          \/ GetChats(1, ChatIdParams, {1})
          \/ DeleteChats(1, ChatIdParams, Emails, {1})
       /\ Noted(1)
    \/ DeleteChat_ChatExists(1)
    \/ DeleteChat_DeleteMember(1)
    \/ DeleteChat_CountMembers(1)
    \/ DeleteChat_DeleteChat(1)
    \/ PutChats_ChatExists(1)
    \/ PutChats_MemberExists(1)
    \/ PutChats_NotJoined(1)
    \/ PutChats_Insert(1)
    \/ PutChatsEmail_ChatExists(1)
    \/ PutChatsEmail_EmailExists(1)
    \/ PutChatsEmail_NotJoined(1)
    \/ PutChatsEmail_Insert(1)
    \/ PutChatsEmail_Notify(1)
    \/ GetChats_ChatExists(1)
    \/ GetChats_Select(1)
    \/ DeleteChats_ChatExists(1)
    \/ DeleteChats_EmailExists(1)
    \/ DeleteChats_InChat(1)
    \/ DeleteChats_Delete(1)

SpecParams == Init /\ [][NextParams]_vars

(***************************************************************************)
(* SpecPair: any two requests, the second arriving after the first has     *)
(* responded.                                                              *)
(***************************************************************************)
\* slot r takes the session's next request
InOrder(r) == req[r].pc = "idle" /\ \A p \in 1..(r - 1) : req[p].pc = "done"

NextPair ==
    \E r \in {1, 2} :
        \/ /\ InOrder(r)
           /\ Starts(r, ChatIdTexts, Emails, CallerIds, ChatNames)
           /\ Noted(r)
        \/ Steps(r)

SpecPair == Init /\ [][NextPair]_vars

(***************************************************************************)
(* SpecRoundTrip: a client creates a chat, joins a chat, and then lists    *)
(* members or chats, each request after the one before has responded.      *)
(***************************************************************************)
NextRoundTrip ==
    \/ InOrder(1) /\ PostChats(1, {"Team", "Crew"}, {1}) /\ Noted(1)
    \/ InOrder(2) /\ PutChats(2, ChatIdTexts, CallerIds) /\ Noted(2)
    \/ \E r \in 3..NumSlots :
          /\ InOrder(r)
          /\ \/ GetChats(r, ChatIdTexts, {1})
             \/ GetAllChats(r, CallerIds)
          /\ Noted(r)
    \/ \E r \in Slots :
          \/ PostChats_Insert(r)
          \/ PutChats_ChatExists(r)
          \/ PutChats_MemberExists(r)
          \/ PutChats_NotJoined(r)
          \/ PutChats_Insert(r)
          \/ GetChats_ChatExists(r)
          \/ GetChats_Select(r)
          \/ GetAllChats_Select(r)

SpecRoundTrip == Init /\ [][NextRoundTrip]_vars

(***************************************************************************)
(* SpecLeave: two DELETE /chats/:chatId requests, interleaving freely      *)
(* between their steps, and no other request.                              *)
(***************************************************************************)
NextLeave ==
    \E r \in ConcSlots :
        \/ /\ req[r].pc = "idle"
           /\ DeleteChat(r, ChatIdTexts, CallerIds)
           /\ Noted(r)
        \/ DeleteChat_ChatExists(r)
        \/ DeleteChat_DeleteMember(r)
        \/ DeleteChat_CountMembers(r)
        \/ DeleteChat_DeleteChat(r)

SpecLeave == Init /\ [][NextLeave]_vars

(***************************************************************************)
(* SpecLive: two requests to any of the endpoints, interleaving freely     *)
(* between their steps; every query a request has issued is eventually     *)
(* resolved or rejected by the store, so the step waiting for it runs.     *)
(***************************************************************************)
NextLive ==
    \E r \in ConcSlots :
        \/ /\ req[r].pc = "idle"
           /\ \/ PostChats(r, ChatNames \cup {""}, {1})
              \/ GetAllChats(r, {1, 2})
              \/ DeleteChat(r, {TextOf(1), <<>>}, {1, 2})
              \/ PutChats(r, {TextOf(1), <<"a">>}, {1, 2})
              \/ PutChatsEmail(r, {TextOf(1)}, {"ann@x", "zed@x"}, {1})
              \/ GetChats(r, {TextOf(1)}, {1})
              \/ DeleteChats(r, {TextOf(1)}, {"ann@x", "zed@x"}, {1})
           /\ UNCHANGED pre
        \/ Steps(r)

SpecLive ==
    /\ InitConc
    /\ [][NextLive]_vars
    /\ \A r \in ConcSlots : WF_vars(Steps(r))

(***************************************************************************)
(* SpecCaller: one request that adds or removes a member by email, sent by *)
(* any caller: a member of the chat, another member, or a caller who has   *)
(* no Members row.                                                         *)
(***************************************************************************)
NextCaller ==
    \/ /\ req[1].pc = "idle"
       /\ \/ PutChatsEmail(1, ChatIdTexts, Emails, CallerIds)
          \/ DeleteChats(1, ChatIdTexts, Emails, CallerIds)
       /\ Noted(1)
    \/ PutChatsEmail_ChatExists(1)
    \/ PutChatsEmail_EmailExists(1)
    \/ PutChatsEmail_NotJoined(1)
    \/ PutChatsEmail_Insert(1)
    \/ PutChatsEmail_Notify(1)
    \/ DeleteChats_ChatExists(1)
    \/ DeleteChats_EmailExists(1)
    \/ DeleteChats_InChat(1)
    \/ DeleteChats_Delete(1)

SpecCaller == InitSeq /\ [][NextCaller]_vars

(***************************************************************************)
(* Properties.                                                             *)
(***************************************************************************)
\* the ChatMembers rows of chat c
RowsOf(cm, c) == {x \in BagToSet(cm) : x[1] = c}

\* the request responded, and no query of it was rejected by the store
Answered(q) ==
    /\ q.pc = "done"
    /\ q.resp.message \notin {"SQL Error", "SQL Error on select from push token"}

\* C1: in every reachable state, under any interleaving of PUT /chats/:chatId
\* and PUT /chats/:chatId/:email requests, ChatMembers holds at most one row
\* for any (chatId, memberId) pair.
C1_NoDuplicateMembership ==
    \A x \in BagToSet(ChatMembers) : CopiesIn(x, ChatMembers) <= 1

\* C2: in every reachable state, every ChatMembers row references a Chats row
\* that currently exists and a Members row that exists, for any interleaving
\* of DELETE /chats/:chatId with requests that add members to the chat.
C2_MembershipReferencesExist ==
    \A x \in BagToSet(ChatMembers) :
        /\ x[1] \in DOMAIN Chats
        /\ \E row \in Members : row.memberid = x[2]

\* C3: whenever the DELETE /chats/:chatId chain executes the deletion of the
\* Chats row, that chat has no ChatMembers row at that moment.
C3_DeletesOnlyEmptyChat ==
    [][\A r \in Slots :
          (/\ At(r, "DeleteChat", "deleteChat")
           /\ Chats' # Chats)
          => CountMembers(ChatMembers, ChatIdOf(req[r])) = 0]_vars

\* the response with this status and message
Responded(q, status, message) ==
    q.pc = "done" /\ q.resp.status = status /\ q.resp.message = message

\* the member ids an add or remove request names: the caller of a self-add,
\* the Members rows with the email otherwise
NamedMembers(q) ==
    IF q.kind = "PutChats" THEN {q.decoded}
    ELSE {row.memberid : row \in {w \in Members : w.email = q.email}}

\* a request for chat c, which exists in the tables p
ForChatIn(q, p) == Accepts(q) /\ ChatIdOf(q) \in DOMAIN p.Chats

\* C4: when DELETE /chats/:chatId is called by the only member of an existing
\* chat, with no store error and no concurrent request, then the response is
\* success, neither the caller's ChatMembers row nor the Chats row exists
\* afterwards, and a GET /chats/:chatId that follows responds 404 "Chat ID not
\* found".
C4_LastMemberLeaves ==
    LET q == req[1]
        g == req[2]
    IN  (/\ q.kind = "DeleteChat" /\ Answered(q) /\ ForChatIn(q, pre[1])
         /\ RowsOf(pre[1].ChatMembers, ChatIdOf(q)) = {<<ChatIdOf(q), q.decoded>>})
        => /\ Responded(q, 200, "success")
           /\ g.pc = "idle" => /\ ChatIdOf(q) \notin DOMAIN Chats
                               /\ RowsOf(ChatMembers, ChatIdOf(q)) = {}
           /\ (g.kind = "GetChats" /\ Answered(g) /\ g.chatId = q.chatId)
              => Responded(g, 404, "Chat ID not found")

C4_Witness ==
    /\ req[1].kind = "DeleteChat" /\ Answered(req[1]) /\ ForChatIn(req[1], pre[1])
    /\ RowsOf(pre[1].ChatMembers, ChatIdOf(req[1])) =
           {<<ChatIdOf(req[1]), req[1].decoded>>}
    /\ req[2].kind = "GetChats" /\ req[2].chatId = req[1].chatId
    /\ Responded(req[2], 404, "Chat ID not found")

Added(q) ==
    \/ q.kind = "PutChats" /\ Responded(q, 200, "success")
    \/ /\ q.kind = "PutChatsEmail" /\ q.pc = "done"
       /\ q.resp.message \in {"success", "SQL Error on select from push token"}

\* C6: when an add of the same (chatId, memberId) pair is performed twice in
\* sequence, by PUT /chats/:chatId or PUT /chats/:chatId/:email, the second
\* starting after the first has completed, the second responds 400 "user
\* already joined" (unless the store rejects one of its queries) and exactly
\* one ChatMembers row for the pair exists afterwards.
C6_SecondAddIsDuplicate ==
    LET a == req[1]
        b == req[2]
    IN  (/\ Added(a)
         /\ b.kind \in {"PutChats", "PutChatsEmail"} /\ b.pc = "done"
         /\ b.chatId = a.chatId /\ NamedMembers(b) = NamedMembers(a))
        => /\ Answered(b) => Responded(b, 400, "user already joined")
           /\ \A m \in NamedMembers(a) :
                 CopiesIn(<<ChatIdOf(a), m>>, ChatMembers) = 1

C6_Witness ==
    /\ Added(req[1]) /\ req[1].kind = "PutChats"
    /\ req[2].kind = "PutChatsEmail" /\ req[2].chatId = req[1].chatId
    /\ NamedMembers(req[2]) = NamedMembers(req[1])
    /\ Responded(req[2], 400, "user already joined")

\* C7: DELETE /chats/:chatId/:email for an existing chat and an existing member
\* who is not in that chat responds 400 "user not in chat" and leaves the Chats
\* and ChatMembers tables exactly as they were before the request.
C7_RemoveNonMember ==
    LET q == req[1]
    IN  (/\ q.kind = "DeleteChats" /\ Answered(q) /\ ForChatIn(q, pre[1])
         /\ NamedMembers(q) # {}
         /\ \A m \in NamedMembers(q) :
               CopiesIn(<<ChatIdOf(q), m>>, pre[1].ChatMembers) = 0)
        => /\ Responded(q, 400, "user not in chat")
           /\ Chats = pre[1].Chats
           /\ ChatMembers = pre[1].ChatMembers

C7_Witness ==
    /\ req[1].kind = "DeleteChats" /\ ForChatIn(req[1], pre[1])
    /\ NamedMembers(req[1]) # {}
    /\ RowsOf(pre[1].ChatMembers, ChatIdOf(req[1])) # {}
    /\ Responded(req[1], 400, "user not in chat")

\* the endpoints with a chatId in their route
ChatScoped == {"DeleteChat", "PutChats", "PutChatsEmail", "GetChats", "DeleteChats"}

\* the text of a positive integer: digits, a "+" before them allowed
IsPositiveIntegerText(s) ==
    LET u == IF s # <<>> /\ s[1] = "+" THEN Tail(s) ELSE s
    IN  u # <<>> /\ AllDigits(u) /\ NatOf(u) > 0

\* the request was refused at its parameter check, before any query
RefusedAsMalformed(q) ==
    /\ q.queries = 0
    /\ q.pc = "done"
    /\ Responded(q, 400, "Malformed parameter. chatId must be a number")

\* C8 as stated: for every chatId value that is not parseable as a positive
\* integer (non-numeric text, negative numbers, zero, non-integer numerals),
\* every chat-scoped endpoint responds MalformedParameter and issues no store
\* query for that request.
C8_RefusesNonPositiveInteger ==
    \A r \in Slots :
        (/\ req[r].kind \in ChatScoped
         /\ req[r].chatId # <<>>
         /\ ~IsPositiveIntegerText(req[r].chatId))
        => /\ req[r].queries = 0
           /\ req[r].pc = "done"
              => Responded(req[r], 400, "Malformed parameter. chatId must be a number")

\* C8 amended: for every chatId value that is not numeric text (isNaN of it is
\* true), every chat-scoped endpoint responds MalformedParameter and issues no
\* store query for that request.
C8_RefusesNonNumeric ==
    \A r \in Slots :
        (/\ req[r].kind \in ChatScoped
         /\ req[r].chatId # <<>>
         /\ isNaN(req[r].chatId))
        => RefusedAsMalformed(req[r])

C8_Witness ==
    /\ req[1].kind = "DeleteChats"
    /\ req[1].chatId = <<"1", "a">>
    /\ RefusedAsMalformed(req[1])

\* C9: a successful PUT /chats/:chatId/:email dispatches exactly one "newRoom"
\* notification for each Push_Token row of the added member, carrying the
\* request's chatId and the chat's name, and none for any other token; with no
\* token of the member there is no dispatch and the response is still success.
C9_NotifiesEachToken ==
    LET q == req[1]
    IN  /\ (q.kind = "PutChatsEmail" /\ Responded(q, 200, "success"))
           => q.sent = SetToBag(
                  {<<row[2], "newRoom", q.chatId, pre[1].Chats[ChatIdOf(q)]>> :
                      row \in {w \in Push_Token : w[1] \in NamedMembers(q)}})
        /\ (/\ q.kind = "PutChatsEmail" /\ Answered(q) /\ ForChatIn(q, pre[1])
            /\ NamedMembers(q) # {}
            /\ \A m \in NamedMembers(q) :
                  CopiesIn(<<ChatIdOf(q), m>>, pre[1].ChatMembers) = 0)
           => Responded(q, 200, "success")

C9_Witness ==
    /\ req[1].kind = "PutChatsEmail" /\ Responded(req[1], 200, "success")
    /\ BagCardinality(req[1].sent) = 1
    /\ \E w \in Push_Token : w[1] \notin NamedMembers(req[1])

\* the chat was created by the first request and joined by the second
CreatedAndJoined ==
    /\ req[1].kind = "PostChats" /\ Responded(req[1], 201, "success")
    /\ req[2].kind = "PutChats" /\ Responded(req[2], 200, "success")
    /\ ChatIdOf(req[2]) = req[1].resp.chatID

\* C10: from any store state, POST /chats {name} followed by PUT /chats/:chatId
\* on the returned chatId by an existing member, with no other request
\* interleaved, makes GET /chats/:chatId return exactly that caller (one row)
\* and makes GET /chats for the caller include the new chat with the same id
\* and name.
C10_RoundTrip ==
    CreatedAndJoined =>
    \A r \in 3..NumSlots :
        /\ (/\ req[r].kind = "GetChats" /\ Answered(req[r])
            /\ ChatIdOf(req[r]) = req[1].resp.chatID)
           => /\ req[r].resp.status = 200
              /\ req[r].resp.rows =
                     SetToBag({<<row.email, row.username>> :
                                  row \in {w \in Members :
                                              w.memberid = req[2].decoded}})
              /\ BagCardinality(req[r].resp.rows) = 1
        /\ (/\ req[r].kind = "GetAllChats" /\ Answered(req[r])
            /\ req[r].decoded = req[2].decoded)
           => /\ req[r].resp.status = 200
              /\ CopiesIn(<<req[1].resp.chatID, req[1].body>>, req[r].resp.rows) = 1
              /\ \A x \in BagToSet(req[r].resp.rows) :
                    x[1] = req[1].resp.chatID => x[2] = req[1].body

\* the caller, already in another chat with other members, lists the chats
C10_Witness ==
    /\ CreatedAndJoined
    /\ req[3].kind = "GetAllChats" /\ Answered(req[3])
    /\ req[3].decoded = req[2].decoded
    /\ BagCardinality(req[3].resp.rows) = 2
    /\ BagCardinality(ChatMembers) > 2

\* every chat of the tables p has a ChatMembers row
NoMemberlessChat(p) ==
    \A c \in DOMAIN p.Chats : RowsOf(p.ChatMembers, c) # {}

\* C11: in every state at which no request is in flight, every Chats row has
\* at least one ChatMembers row, after any sequence of requests: a request
\* that arrives with no memberless chat in the tables leaves none behind when
\* it has responded.
C11_NoMemberlessChat ==
    (req[1].pc = "done" /\ NoMemberlessChat(pre[1]))
    => NoMemberlessChat([Chats |-> Chats, ChatMembers |-> ChatMembers])

\* the request has sent an error response
ErrorSent(q) == q.resp.status >= 400

\* C12: once a step of a request has sent an error response, no later step of
\* that request runs: the request is as it was in every later state (no
\* further query, no dispatch), and every change of the tables comes with a
\* query of a request in flight that has sent no error response.
C12_ErrorEndsChain ==
    [][/\ \A r \in Slots : ErrorSent(req[r]) => req'[r] = req[r]
       /\ store' # store
          => \E r \in Slots : /\ InFlight(r) /\ ~ErrorSent(req[r])
                              /\ req'[r].queries = req[r].queries + 1]_vars

\* a joining request was refused after its first query, and the request after
\* it has changed the tables since
C12_Witness ==
    /\ req[1].kind = "PutChats" /\ ErrorSent(req[1]) /\ req[1].queries = 1
    /\ req[2].pc = "done"
    /\ ChatMembers # pre[2].ChatMembers

\* the add-by-email request whose INSERT was executed and whose token lookup,
\* its fifth query, the store rejected
LookupFailed(q) ==
    /\ q.kind = "PutChatsEmail" /\ q.pc = "done" /\ q.queries = 5
    /\ ~Answered(q)

\* the ChatMembers rows the add request named are there, once each
RowInserted(q) ==
    /\ NamedMembers(q) # {}
    /\ \A m \in NamedMembers(q) :
          /\ CopiesIn(<<ChatIdOf(q), m>>, pre[1].ChatMembers) = 0
          /\ CopiesIn(<<ChatIdOf(q), m>>, ChatMembers) = 1

\* C13: in PUT /chats/:chatId/:email, if the membership insert has succeeded
\* and the Push_Token lookup that follows fails, the inserted ChatMembers row
\* remains in the store (no rollback), and the membership change is reported
\* to the caller as successful.
C13_LookupFailureReportsSuccess ==
    LookupFailed(req[1])
    => /\ RowInserted(req[1])
       /\ req[1].resp.status < 400


\* C14: PUT /chats/:chatId (the caller adds themself) never dispatches a
\* notification, whatever its outcome and whatever Push_Token rows the caller
\* has.
C14_SelfAddSendsNothing ==
    \A r \in Slots : req[r].kind = "PutChats" => req[r].sent = EmptyBag

\* a caller with Push_Token rows has joined a chat
C14_Witness ==
    /\ req[1].kind = "PutChats" /\ Responded(req[1], 200, "success")
    /\ CopiesIn(<<ChatIdOf(req[1]), req[1].decoded>>, ChatMembers) = 1
    /\ \E w \in Push_Token : w[1] = req[1].decoded


\* a remove request that names an unknown email and a chat that does not exist
UnknownEmailAndChat(q) ==
    /\ q.kind = "DeleteChats" /\ Answered(q)
    /\ Accepts(q) /\ ChatIdOf(q) \notin DOMAIN pre[1].Chats
    /\ NamedMembers(q) = {}

\* C15 as stated: DELETE /chats/:chatId/:email resolves the email first, then
\* checks that chatId is numeric, that the chat exists and that the member is
\* in the chat, then deletes; so a request whose email is unknown and whose
\* chatId names no existing chat is answered with the email-not-found error
\* rather than with "Chat ID not found".
C15_EmailResolvedFirst ==
    UnknownEmailAndChat(req[1]) => Responded(req[1], 404, "email not found")

\* the response the checks of DELETE /chats/:chatId/:email give on the tables
\* p, taken in the order chatId numeric, chat exists, email known, member in
\* the chat
RemoveOutcome(q, p) ==
    IF isNaN(q.chatId)
    THEN <<400, "Malformed parameter. chatId must be a number">>
    ELSE IF ~ForChatIn(q, p) THEN <<404, "Chat ID not found">>
    ELSE IF NamedMembers(q) = {} THEN <<404, "email not found">>
    ELSE IF \A m \in NamedMembers(q) :
                CopiesIn(<<ChatIdOf(q), m>>, p.ChatMembers) = 0
         THEN <<400, "user not in chat">>
         ELSE <<200, "success">>

\* C15 amended: DELETE /chats/:chatId/:email checks that chatId is numeric,
\* then that the chat exists, then resolves the email, then checks that the
\* member is in the chat, then deletes; the response is that of the first
\* check that fails, so a request whose email is unknown and whose chatId
\* names no existing chat is answered 404 "Chat ID not found"; the membership
\* rows change only when every check has passed.
C15_ChatCheckedFirst ==
    LET q == req[1]
    IN  q.kind = "DeleteChats"
        => /\ Answered(q)
              => /\ <<q.resp.status, q.resp.message>> = RemoveOutcome(q, pre[1])
                 /\ UnknownEmailAndChat(q) => Responded(q, 404, "Chat ID not found")
           /\ ChatMembers # pre[1].ChatMembers
              => RemoveOutcome(q, pre[1]) = <<200, "success">>
           /\ Chats = pre[1].Chats

C15_Witness ==
    /\ UnknownEmailAndChat(req[1])
    /\ req[1].email = "zed@x"
    /\ req[1].queries = 1
    /\ Responded(req[1], 404, "Chat ID not found")


\* the response the checks of PUT /chats/:chatId and PUT /chats/:chatId/:email
\* give on the tables p, taken in the order parameters present and numeric,
\* chat exists, member exists, not already a member
AddOutcome(q, p) ==
    IF q.chatId = <<>> \/ (q.kind = "PutChatsEmail" /\ q.email = "")
    THEN <<400, "Missing required information">>
    ELSE IF isNaN(q.chatId)
    THEN <<400, "Malformed parameter. chatId must be a number">>
    ELSE IF ~ForChatIn(q, p) THEN <<404, "Chat ID not found">>
    ELSE IF \A m \in NamedMembers(q) : SelectMemberById(Members, m) = {}
    THEN <<404, IF q.kind = "PutChats" THEN "email not found" ELSE "User not found">>
    ELSE IF \E m \in NamedMembers(q) :
                CopiesIn(<<ChatIdOf(q), m>>, p.ChatMembers) > 0
         THEN <<400, "user already joined">>
         ELSE <<200, "success">>

\* C16: PUT /chats/:chatId and PUT /chats/:chatId/:email evaluate their checks
\* in the order parameter present and numeric, chat exists, member exists, not
\* already a member, insert: the response is the error of the earliest check
\* that fails, and the ChatMembers insert happens only if all four checks
\* passed (and then adds the one row the request names).
C16_AddChecksInOrder ==
    LET q == req[1]
    IN  q.kind \in {"PutChats", "PutChatsEmail"}
        => /\ Answered(q)
              => <<q.resp.status, q.resp.message>> = AddOutcome(q, pre[1])
           /\ ChatMembers # pre[1].ChatMembers
              => /\ AddOutcome(q, pre[1]) = <<200, "success">>
                 /\ \A m \in NamedMembers(q) :
                       ChatMembers = pre[1].ChatMembers
                                         (+) SetToBag({<<ChatIdOf(q), m>>})
           /\ Chats = pre[1].Chats

\* a caller who is no member joins a chat that does not exist: two checks
\* would fail, and the answer is that of the first
C16_Witness ==
    /\ req[1].kind = "PutChats"
    /\ Accepts(req[1]) /\ ChatIdOf(req[1]) \notin DOMAIN pre[1].Chats
    /\ \A m \in NamedMembers(req[1]) : SelectMemberById(Members, m) = {}
    /\ Responded(req[1], 404, "Chat ID not found")


\* a leave request by a caller who is not in the chat, which exists and has
\* members
LeaveByNonMember(q) ==
    /\ q.kind = "DeleteChat" /\ ForChatIn(q, pre[1])
    /\ CopiesIn(<<ChatIdOf(q), q.decoded>>, pre[1].ChatMembers) = 0
    /\ RowsOf(pre[1].ChatMembers, ChatIdOf(q)) # {}

LeaveFailedHalfway(q) ==
    /\ q.kind = "DeleteChat" /\ Responded(q, 400, "SQL Error")
    /\ q.queries \in {3, 4}

\* C18: the steps of DELETE /chats/:chatId commit independently: when the
\* request stops with a store error after the caller's membership row was
\* deleted and before the Chats row is deleted, the membership stays deleted,
\* every other row and the Chats row are as they were (a sole member leaves
\* the chat behind with zero members), and the response is an error.
C18_LeaveCommitsStepwise ==
    LET q == req[1]
        c == ChatIdOf(q)
    IN  LeaveFailedHalfway(q)
        => /\ CopiesIn(<<c, q.decoded>>, ChatMembers) = 0
           /\ \A x \in BagToSet(pre[1].ChatMembers) \cup BagToSet(ChatMembers) :
                 x # <<c, q.decoded>>
                 => CopiesIn(x, ChatMembers) = CopiesIn(x, pre[1].ChatMembers)
           /\ Chats = pre[1].Chats /\ c \in DOMAIN Chats
           /\ RowsOf(pre[1].ChatMembers, c) \subseteq {<<c, q.decoded>>}
              => CountMembers(ChatMembers, c) = 0
           /\ ErrorSent(q)

\* the sole member's leave failed on the delete of the chat
C18_Witness ==
    /\ LeaveFailedHalfway(req[1]) /\ req[1].queries = 4
    /\ RowsOf(pre[1].ChatMembers, ChatIdOf(req[1])) =
           {<<ChatIdOf(req[1]), req[1].decoded>>}
    /\ ChatIdOf(req[1]) \in DOMAIN Chats
    /\ RowsOf(ChatMembers, ChatIdOf(req[1])) = {}


\* the two listing endpoints
Listings == {"GetAllChats", "GetChats"}

\* C19: no operation of the chats route ever modifies the Members or the
\* Push_Token table, and every step of GET /chats and GET /chats/:chatId,
\* whatever its outcome, leaves all four tables unchanged.
C19_ListingsWriteNothing ==
    [][/\ Members' = Members
       /\ Push_Token' = Push_Token
       /\ \A r \in Slots :
             (/\ req'[r] # req[r]
              /\ req[r].kind \in Listings \/ req'[r].kind \in Listings)
             => store' = store]_vars

\* a listing has returned rows next to an add by email that read the tokens
C19_Witness ==
    /\ req[1].kind = "GetChats" /\ Responded(req[1], 200, "success")
    /\ req[1].resp.rows # EmptyBag
    /\ req[2].kind = "PutChatsEmail" /\ Responded(req[2], 200, "success")
    /\ req[2].sent # EmptyBag


\* the two requests are the leaves of the two members a chat had, and the
\* store rejected no query of either
AllMembersLeft(a, b) ==
    /\ a.kind = "DeleteChat" /\ b.kind = "DeleteChat"
    /\ Answered(a) /\ Answered(b)
    /\ a.chatId = b.chatId /\ a.decoded # b.decoded
    /\ \E s \in ConcSlots :
          /\ ForChatIn(a, pre[s])
          /\ RowsOf(pre[s].ChatMembers, ChatIdOf(a)) =
                 {<<ChatIdOf(a), a.decoded>>, <<ChatIdOf(a), b.decoded>>}

C21_ExactlyOneResponse ==
    /\ \A r \in ConcSlots :
          (req[r].pc # "idle") ~> (req[r].pc = "done" /\ req[r].resp.status # 0)
    /\ [][\A r \in ConcSlots :
             /\ req[r].resp.status # 0 => req'[r] = req[r]
             /\ req'[r].resp.status # 0 <=> req'[r].pc = "done"]_vars

\* the two longest chains have both come to their response
C21_Witness ==
    /\ req[1].kind = "PutChatsEmail" /\ req[1].queries = 5
    /\ Responded(req[1], 200, "success")
    /\ req[2].kind = "DeleteChat" /\ req[2].queries = 4
    /\ Responded(req[2], 200, "success")


\* C22: a "newRoom" notification for (chatId, member) is dispatched only after
\* the ChatMembers insert for that pair by the same PUT /chats/:chatId/:email
\* request has succeeded: a request that has dispatched passed every check,
\* added its row, and notified only tokens of the member it added; a request
\* that failed a check or whose insert failed has dispatched nothing.
C22_NotifiesOnlyAfterInsert ==
    LET q == req[1]
    IN  q.sent # EmptyBag
        => /\ q.kind = "PutChatsEmail"
           /\ AddOutcome(q, pre[1]) = <<200, "success">>
           /\ \A m \in NamedMembers(q) :
                 CopiesIn(<<ChatIdOf(q), m>>, ChatMembers) =
                     CopiesIn(<<ChatIdOf(q), m>>, pre[1].ChatMembers) + 1
           /\ \A x \in BagToSet(q.sent) :
                 /\ x[2] = "newRoom" /\ x[3] = q.chatId
                 /\ \E w \in Push_Token : w[2] = x[1] /\ w[1] \in NamedMembers(q)

\* the added member's two devices were notified
C22_Witness ==
    /\ req[1].kind = "PutChatsEmail" /\ Responded(req[1], 200, "success")
    /\ BagCardinality(req[1].sent) = 2
    /\ \A m \in NamedMembers(req[1]) :
          CopiesIn(<<ChatIdOf(req[1]), m>>, ChatMembers) = 1


\* the remove request took the only member of its chat out
RemovedLastMember(q) ==
    /\ q.kind = "DeleteChats" /\ Responded(q, 200, "success")
    /\ NamedMembers(q) # {}
    /\ RowsOf(pre[1].ChatMembers, ChatIdOf(q)) =
           {<<ChatIdOf(q), m>> : m \in NamedMembers(q)}

\* C23: DELETE /chats/:chatId/:email, PUT /chats/:chatId and
\* PUT /chats/:chatId/:email never delete a Chats row, whatever their outcome;
\* in particular, removing the last member of a chat through
\* DELETE /chats/:chatId/:email leaves the Chats row in the store with zero
\* members.
C23_AddAndRemoveKeepChats ==
    LET q == req[1]
    IN  /\ q.kind \in {"DeleteChats", "PutChats", "PutChatsEmail"}
           => Chats = pre[1].Chats
        /\ RemovedLastMember(q)
           => /\ ChatIdOf(q) \in DOMAIN Chats
              /\ CountMembers(ChatMembers, ChatIdOf(q)) = 0

C23_Witness ==
    /\ RemovedLastMember(req[1])
    /\ ChatIdOf(req[1]) \in DOMAIN Chats
    /\ RowsOf(ChatMembers, ChatIdOf(req[1])) = {}


\* the request without the identity of its caller
Anonymous(q) == [q EXCEPT !.decoded = 0]

\* the response a by-email request gets when the store rejects none of its
\* queries, from the request without its caller and the tables p
ByEmailOutcome(a, p) ==
    IF a.kind = "PutChatsEmail" THEN AddOutcome(a, p) ELSE RemoveOutcome(a, p)

\* the ChatMembers table a by-email request that ended with this message
\* leaves, from the request without its caller and the tables p
ByEmailEffect(a, message, p) ==
    LET rows == SetToBag({<<ChatIdOf(a), m>> : m \in NamedMembers(a)})
    IN  IF /\ a.kind = "PutChatsEmail"
           /\ message \in {"success", "SQL Error on select from push token"}
        THEN p.ChatMembers (+) rows
        ELSE IF a.kind = "DeleteChats" /\ message = "success"
             THEN p.ChatMembers (-) rows
             ELSE p.ChatMembers

\* C24: the outcome of PUT /chats/:chatId/:email and of
\* DELETE /chats/:chatId/:email (the response, the notifications and the
\* resulting tables) is independent of the caller's identity: it is the same
\* for every caller, a caller who is not in the chat included, being
\* determined by the chatId, the email and the tables the request found (and
\* by the query the store rejected, if it rejected one).
C24_CallerIndependent ==
    LET q == req[1]
        a == Anonymous(q)
    IN  (q.kind \in {"PutChatsEmail", "DeleteChats"} /\ q.pc = "done")
        => /\ Answered(q)
              => <<q.resp.status, q.resp.message>> = ByEmailOutcome(a, pre[1])
           /\ ChatMembers = ByEmailEffect(a, q.resp.message, pre[1])
           /\ Chats = pre[1].Chats
           /\ q.sent = IF Responded(q, 200, "success") /\ a.kind = "PutChatsEmail"
                       THEN SetToBag({<<w[2], "newRoom", a.chatId,
                                        pre[1].Chats[ChatIdOf(a)]>> :
                                         w \in {t \in Push_Token :
                                                   t[1] \in NamedMembers(a)}})
                       ELSE EmptyBag

\* a caller who has no Members row has added a member to a chat that another
\* member is in
C24_Witness ==
    /\ req[1].kind = "PutChatsEmail" /\ Responded(req[1], 200, "success")
    /\ SelectMemberById(Members, req[1].decoded) = {}
    /\ BagCardinality(ChatMembers) = BagCardinality(pre[1].ChatMembers) + 1
    /\ RowsOf(pre[1].ChatMembers, ChatIdOf(req[1])) # {}

=============================================================================
